---- MODULE Spec2Model ----
(***************************************************************************)
(* A model of ytdl_subscribe/entries/entry.py: BaseEntry (the raw-metadata *)
(* holder) and Entry (the media entry with its derived fields).            *)
(*                                                                         *)
(* Python strings are sequences of one-character strings, so that slicing, *)
(* lstrip, split, int() and the f-string formatting are computed, not      *)
(* assumed.  A call that returns v is Ok(v); a call that raises is a       *)
(* record that names the exception.                                        *)
(***************************************************************************)
EXTENDS Integers, Sequences, FiniteSets, TLC

VARIABLES
    cls,              \* the concrete class of the entry object
    constructed,      \* the mapping __init__ was handed
    _kwargs,          \* self._kwargs, the raw mapping captured by __init__
    op,               \* the method or property called last ("none": none yet)
    arg,              \* the arguments of that call
    result,           \* what that call returned or raised
    formatter_calls,  \* the variable_dicts that call handed to the formatter
    overrides,        \* the overrides object handed to that call (None: none),
                      \* as it is after the call
    first,            \* the first call made on the entry: [op, arg, result]
    again             \* TRUE when the last call was not the first one

vars == <<cls, constructed, _kwargs, op, arg, result, formatter_calls, overrides, first, again>>

(***************************************************************************)
(* Bounds of the model.                                                    *)
(***************************************************************************)
\* The digits 0..MaxDigit make up the upload dates of SpecDate.
MaxDigit == 1

\* The thumbnail URLs of SpecThumb have at most MaxUrlLen characters.
MaxUrlLen == 3

(***************************************************************************)
(* Python values.                                                          *)
(***************************************************************************)
None == [tag |-> "None"]

Ok(v) == [tag |-> "ok", val |-> v]

\* raise KeyError(f"Expected '{key}' in {self.__class__.__name__} but does not exist.")
KeyError(key, classname) == [tag |-> "KeyError", key |-> key, cls |-> classname]

\* ValueError: invalid literal for int() with base 10
ValueError(literal) == [tag |-> "ValueError", literal |-> literal]

IsOk(r) == r.tag = "ok"

Min(S) == CHOOSE x \in S : \A y \in S : x <= y

Max(S) == CHOOSE x \in S : \A y \in S : y <= x

DigitChars == <<"0", "1", "2", "3", "4", "5", "6", "7", "8", "9">>

IsDigit(c) == \E d \in 1..Len(DigitChars) : DigitChars[d] = c

DigitVal(c) == (CHOOSE d \in 1..Len(DigitChars) : DigitChars[d] = c) - 1

\* s[a:b] for 0 <= a <= b: the slice stops at the end of a shorter string.
Slice(s, a, b) == SubSeq(s, a + 1, IF b < Len(s) THEN b ELSE Len(s))

\* s.lstrip(c)
RECURSIVE lstrip(_, _)
lstrip(s, c) == IF s # <<>> /\ Head(s) = c THEN lstrip(Tail(s), c) ELSE s

RECURSIVE DecimalValue(_)
DecimalValue(s) ==
    IF s = <<>> THEN 0
    ELSE DecimalValue(SubSeq(s, 1, Len(s) - 1)) * 10 + DigitVal(s[Len(s)])

\* int(s) of a string: the decimal value of a non-empty digit string, and
\* ValueError for the empty string or a string holding another character.
int(s) ==
    IF s = <<>> \/ \E i \in 1..Len(s) : ~IsDigit(s[i])
    THEN ValueError(s)
    ELSE Ok(DecimalValue(s))

\* f"{n}" of a non-negative int: its decimal digits, without leading zeros.
RECURSIVE FormatInt(_)
FormatInt(n) ==
    IF n < 10 THEN <<DigitChars[n + 1]>>
    ELSE FormatInt(n \div 10) \o <<DigitChars[(n % 10) + 1]>>

\* s.split(sep) for a one-character separator: the list of the fields.
RECURSIVE split(_, _)
split(s, sep) ==
    LET at == {i \in 1..Len(s) : s[i] = sep}
    IN  IF at = {} THEN <<s>>
        ELSE <<SubSeq(s, 1, Min(at) - 1)>>
                 \o split(SubSeq(s, Min(at) + 1, Len(s)), sep)

\* sanitize(title) of the sanitize_filename package: the characters that are
\* illegal in a file name are removed, the others kept in order.
IllegalFilenameChars == {"/", ":"}

RECURSIVE sanitize(_)
sanitize(s) ==
    IF s = <<>> THEN <<>>
    ELSE (IF Head(s) \in IllegalFilenameChars THEN <<>> ELSE <<Head(s)>>)
             \o sanitize(Tail(s))

\* sep.join(parts)
RECURSIVE join(_, _)
join(sep, parts) ==
    IF parts = <<>> THEN <<>>
    ELSE IF Len(parts) = 1 THEN parts[1]
    ELSE parts[1] \o sep \o join(sep, Tail(parts))

\* str(PurePosixPath(s)): empty and "." components are dropped, a leading "/"
\* is kept (exactly two are kept as "//"), and the empty path is ".".
PathStr(s) ==
    LET root == IF Len(s) >= 2 /\ s[1] = "/" /\ s[2] = "/"
                     /\ ~(Len(s) >= 3 /\ s[3] = "/")
                THEN <<"/", "/">>
                ELSE IF Len(s) >= 1 /\ s[1] = "/" THEN <<"/">> ELSE <<>>
        parts == SelectSeq(split(s, "/"), LAMBDA c : c # <<>> /\ c # <<".">>)
        r == root \o join(<<"/">>, parts)
    IN  IF r = <<>> THEN <<".">> ELSE r

\* str(Path(directory) / name) on a POSIX platform: an absolute name replaces
\* the directory.
PathJoin(directory, name) ==
    IF directory = <<>> \/ (name # <<>> /\ Head(name) = "/")
    THEN PathStr(name)
    ELSE PathStr(directory \o <<"/">> \o name)

(***************************************************************************)
(* BaseEntry.  self is the object: [cls, _kwargs].                         *)
(***************************************************************************)
kwargs_contains(self, key) == key \in DOMAIN self._kwargs

\* kwargs with the class name of the base class written out.
kwargs_base_name(self, key) ==
    IF ~kwargs_contains(self, key)
    THEN KeyError(key, "BaseEntry")
    ELSE Ok(self._kwargs[key])

kwargs(self, key) ==
    IF ~kwargs_contains(self, key)
    THEN KeyError(key, self.cls)
    ELSE Ok(self._kwargs[key])

uid(self) == kwargs(self, "id")

extractor(self) == kwargs(self, "extractor")

playlist_metadata(self) == Ok(None)

\* A dict display evaluates its values in order; the first that raises ends it.
\* items is a sequence of <<key, result>>.
DictOf(items) ==
    LET bad == {i \in 1..Len(items) : ~IsOk(items[i][2])}
    IN  IF bad # {} THEN items[Min(bad)][2]
        ELSE Ok([k \in {items[i][1] : i \in 1..Len(items)} |->
                    items[Max({i \in 1..Len(items) : items[i][1] = k})][2].val])

\* dict(d, **more): a new dict, the entries of more on top of those of d.
DictUpdate(d, more) == more @@ d

BaseEntry_to_dict(self) ==
    DictOf(<< <<"uid", uid(self)>>, <<"extractor", extractor(self)>> >>)

(***************************************************************************)
(* Entry.                                                                  *)
(***************************************************************************)
title(self) == kwargs(self, "title")

sanitized_title(self) ==
    LET t == title(self) IN IF IsOk(t) THEN Ok(sanitize(t.val)) ELSE t

ext(self) == kwargs(self, "ext")

upload_date(self) == kwargs(self, "upload_date")

upload_year(self) ==
    LET d == upload_date(self) IN IF IsOk(d) THEN int(Slice(d.val, 0, 4)) ELSE d

upload_month_padded(self) ==
    LET d == upload_date(self) IN IF IsOk(d) THEN Ok(Slice(d.val, 4, 6)) ELSE d

upload_day_padded(self) ==
    LET d == upload_date(self) IN IF IsOk(d) THEN Ok(Slice(d.val, 6, 8)) ELSE d

upload_month(self) ==
    LET p == upload_month_padded(self)
    IN  IF IsOk(p) THEN int(lstrip(p.val, "0")) ELSE p

upload_day(self) ==
    LET p == upload_day_padded(self)
    IN  IF IsOk(p) THEN int(lstrip(p.val, "0")) ELSE p

upload_date_standardized(self) ==
    LET y == upload_year(self)
        m == upload_month_padded(self)
        d == upload_day_padded(self)
    IN  IF ~IsOk(y) THEN y
        ELSE IF ~IsOk(m) THEN m
        ELSE IF ~IsOk(d) THEN d
        ELSE Ok(FormatInt(y.val) \o <<"-">> \o m.val \o <<"-">> \o d.val)

description(self) == kwargs(self, "description")

thumbnail(self) == kwargs(self, "thumbnail")

\* thumbnail_ext as thumbnail.split(".", 1)[-1]: what follows the first ".".
thumbnail_ext_first_dot(self) ==
    LET t == thumbnail(self)
    IN  IF IsOk(t)
        THEN LET at == {i \in 1..Len(t.val) : t.val[i] = "."}
             IN  Ok(IF at = {} THEN t.val
                    ELSE SubSeq(t.val, Min(at) + 1, Len(t.val)))
        ELSE t

thumbnail_ext(self) ==
    LET t == thumbnail(self)
    IN  IF IsOk(t)
        THEN LET fields == split(t.val, ".") IN Ok(fields[Len(fields)])
        ELSE t

download_file_name(self) ==
    LET u == uid(self)
        e == ext(self)
    IN  IF ~IsOk(u) THEN u
        ELSE IF ~IsOk(e) THEN e
        ELSE Ok(u.val \o <<".">> \o e.val)

\* download_thumbnail_name with the media file's extension.
download_thumbnail_name_ext(self) ==
    LET u == uid(self)
        e == ext(self)
    IN  IF ~IsOk(u) THEN u
        ELSE IF ~IsOk(e) THEN e
        ELSE Ok(u.val \o <<".">> \o e.val)

download_thumbnail_name(self) ==
    LET u == uid(self)
        e == thumbnail_ext(self)
    IN  IF ~IsOk(u) THEN u
        ELSE IF ~IsOk(e) THEN e
        ELSE Ok(u.val \o <<".">> \o e.val)

file_path(self, relative_directory) ==
    LET n == download_file_name(self)
    IN  IF IsOk(n) THEN Ok(PathJoin(relative_directory, n.val)) ELSE n

thumbnail_path(self, relative_directory) ==
    LET n == download_thumbnail_name(self)
    IN  IF IsOk(n) THEN Ok(PathJoin(relative_directory, n.val)) ELSE n

Entry_to_dict(self) ==
    LET base == BaseEntry_to_dict(self)
        more == DictOf(<<
            <<"title", title(self)>>,
            <<"sanitized_title", sanitized_title(self)>>,
            <<"description", description(self)>>,
            <<"ext", ext(self)>>,
            <<"upload_date", upload_date(self)>>,
            <<"upload_date_standardized", upload_date_standardized(self)>>,
            <<"upload_year", upload_year(self)>>,
            <<"upload_month", upload_month(self)>>,
            <<"upload_month_padded", upload_month_padded(self)>>,
            <<"upload_day", upload_day(self)>>,
            <<"upload_day_padded", upload_day_padded(self)>>,
            <<"thumbnail", thumbnail(self)>>,
            <<"thumbnail_ext", thumbnail_ext(self)>> >>)
    IN  IF ~IsOk(base) THEN base
        ELSE IF ~IsOk(more) THEN more
        ELSE Ok(DictUpdate(base.val, more.val))

\* self.to_dict(): the method of the object's class.
to_dict(self) ==
    IF self.cls = "Entry" THEN Entry_to_dict(self) ELSE BaseEntry_to_dict(self)

IsNone(x) == x.tag = "None"

\* formatter.apply_formatter(variable_dict=entry_dict): the formatter is a
\* collaborator; what it answers, a string or a failure, is the formatter's.
StringFormatterValidator_apply_formatter(formatter, variable_dict) ==
    formatter.outcome

\* apply_formatter with the entry's values on top of the overrides.
apply_formatter_entry_wins(self, formatter, ov) ==
    LET entry_dict == to_dict(self)
        merged == IF ~IsNone(ov)
                  THEN DictUpdate(ov.dict_with_format_strings, entry_dict.val)
                  ELSE entry_dict.val
    IN  IF ~IsOk(entry_dict)
        THEN [ret |-> entry_dict, formatter_calls |-> <<>>,
              _kwargs |-> self._kwargs, overrides |-> ov]
        ELSE [ret |-> StringFormatterValidator_apply_formatter(formatter, merged),
              formatter_calls |-> <<merged>>,
              _kwargs |-> self._kwargs, overrides |-> ov]

\* apply_formatter that merges the overrides into self._kwargs in place.
apply_formatter_in_place(self, formatter, ov) ==
    LET entry_dict == to_dict(self)
        merged == IF ~IsNone(ov)
                  THEN DictUpdate(entry_dict.val, ov.dict_with_format_strings)
                  ELSE entry_dict.val
        kept == IF ~IsNone(ov)
                THEN DictUpdate(self._kwargs, ov.dict_with_format_strings)
                ELSE self._kwargs
    IN  IF ~IsOk(entry_dict)
        THEN [ret |-> entry_dict, formatter_calls |-> <<>>,
              _kwargs |-> kept, overrides |-> ov]
        ELSE [ret |-> StringFormatterValidator_apply_formatter(formatter, merged),
              formatter_calls |-> <<merged>>,
              _kwargs |-> kept, overrides |-> ov]

\* BaseEntry.apply_formatter.  Besides what the call returns or raises (ret)
\* the record holds what the call did: the dicts it handed to the formatter
\* and the entry's raw mapping and the overrides object as they are afterwards.
apply_formatter(self, formatter, ov) ==
    LET entry_dict == to_dict(self)
        merged == IF ~IsNone(ov)
                  THEN DictUpdate(entry_dict.val, ov.dict_with_format_strings)
                  ELSE entry_dict.val
    IN  IF ~IsOk(entry_dict)
        THEN [ret |-> entry_dict, formatter_calls |-> <<>>,
              _kwargs |-> self._kwargs, overrides |-> ov]
        ELSE [ret |-> StringFormatterValidator_apply_formatter(formatter, merged),
              formatter_calls |-> <<merged>>,
              _kwargs |-> self._kwargs, overrides |-> ov]

(***************************************************************************)
(* The inputs: the raw mappings an entry is constructed from, the          *)
(* arguments of the calls.                                                 *)
(***************************************************************************)
RequiredKeys ==
    {"id", "extractor", "title", "ext", "upload_date", "description", "thumbnail"}

\* A key of the extractor's output that the entry does not read.
ExtraKeys == {"webpage_url"}

\* The raw mapping with the keys of D, the given upload date and thumbnail.
RawMapping(D, date, url) ==
    [k \in D |->
        CASE k = "id" -> <<"a">>
          [] k = "extractor" -> <<"y">>
          [] k = "title" -> <<"t", "/">>
          [] k = "ext" -> <<"m">>
          [] k = "upload_date" -> date
          [] k = "description" -> <<"d">>
          [] k = "thumbnail" -> url
          [] OTHER -> <<"w">>]

\* Upload dates: an ordinary one, and one whose month is "00".
Dates ==
    { <<"2", "0", "2", "3", "0", "4", "0", "5">>,
      <<"2", "0", "2", "3", "0", "0", "0", "5">> }

\* Thumbnail URLs: with and without a ".".
Urls == { <<"x", ".", "j">>, <<"x", "j">> }

\* Every required key present, with or without extra keys, or one required
\* key absent.
KeySets ==
    {RequiredKeys, RequiredKeys \cup ExtraKeys}
        \cup {RequiredKeys \ {k} : k \in RequiredKeys}

\* The keys that kwargs_contains and kwargs are called with.
ProbeKeys == {"id", "thumbnail", "webpage_url"}

ClassNames == {"BaseEntry", "Entry"}

\* Every digit string of length 8 over 0..MaxDigit.
DigitDates == [1..8 -> {DigitChars[d + 1] : d \in 0..MaxDigit}]

UrlAlphabet == {".", "/", "x"}

\* Every string over UrlAlphabet of at most MaxUrlLen characters.
UrlStrings == UNION {[1..n -> UrlAlphabet] : n \in 0..MaxUrlLen}

FormatterError == [tag |-> "StringFormattingException"]

\* A formatter that renders a string, and one whose substitution fails.
Formatters == { [outcome |-> Ok(<<"r">>)], [outcome |-> FormatterError] }

OverridesValidator(d) == [tag |-> "OverridesValidator", dict_with_format_strings |-> d]

\* No overrides, or an overrides object whose mapping is empty, or collides
\* with the entry's title and adds a key of its own.
OverridesChoices ==
    { None,
      OverridesValidator(<<>>),
      OverridesValidator(("title" :> <<"B">>) @@ ("custom" :> <<"c">>)) }

Directories == { <<"o">> }

NoCall == [op |-> "none", arg |-> <<>>, result |-> None]

(***************************************************************************)
(* The state machine: an entry is constructed, then its methods and        *)
(* properties are called in any order.                                     *)
(***************************************************************************)
\* BaseEntry.__init__(**kwargs) of an object of class c.
Construct(c, m) ==
    /\ cls = c
    /\ constructed = m
    /\ _kwargs = m
    /\ op = "none"
    /\ arg = <<>>
    /\ result = None
    /\ formatter_calls = <<>>
    /\ overrides = None
    /\ first = NoCall
    /\ again = FALSE

Init ==
    \E c \in ClassNames, D \in KeySets, date \in Dates, url \in Urls :
        Construct(c, RawMapping(D, date, url))

InitDate ==
    \E date \in DigitDates :
        Construct("Entry", RawMapping(RequiredKeys, date, <<"x", ".", "j">>))

InitThumb ==
    \E url \in UrlStrings :
        Construct("Entry", RawMapping(RequiredKeys, <<"2", "0", "2", "3", "0", "4", "0", "5">>, url))

Self == [cls |-> cls, _kwargs |-> _kwargs]

\* A call that reads the entry: name and arguments a, outcome r.
Call(name, a, r) ==
    /\ op' = name
    /\ arg' = a
    /\ result' = r
    /\ formatter_calls' = <<>>
    /\ first' = IF first.op = "none"
                THEN [op |-> name, arg |-> a, result |-> r]
                ELSE first
    /\ again' = (first.op # "none")
    /\ overrides' = None
    /\ UNCHANGED <<cls, constructed, _kwargs>>

Call_kwargs_contains ==
    \E key \in ProbeKeys :
        Call("kwargs_contains", key, Ok(kwargs_contains(Self, key)))

Call_kwargs ==
    \E key \in ProbeKeys :
        Call("kwargs", key, kwargs(Self, key))

Call_uid == Call("uid", <<>>, uid(Self))

Call_extractor == Call("extractor", <<>>, extractor(Self))

Call_playlist_metadata == Call("playlist_metadata", <<>>, playlist_metadata(Self))

Call_to_dict == Call("to_dict", <<>>, to_dict(Self))

Call_apply_formatter ==
    \E formatter \in Formatters, ov \in OverridesChoices :
        LET done == apply_formatter(Self, formatter, ov)
            a == [formatter |-> formatter, overrides |-> ov]
        IN  /\ op' = "apply_formatter"
            /\ arg' = a
            /\ result' = done.ret
            /\ formatter_calls' = done.formatter_calls
            /\ _kwargs' = done._kwargs
            /\ overrides' = done.overrides
            /\ first' = IF first.op = "none"
                        THEN [op |-> "apply_formatter", arg |-> a, result |-> done.ret]
                        ELSE first
            /\ again' = (first.op # "none")
            /\ UNCHANGED <<cls, constructed>>

\* The properties and methods of class Entry.
Call_title == cls = "Entry" /\ Call("title", <<>>, title(Self))

Call_sanitized_title ==
    cls = "Entry" /\ Call("sanitized_title", <<>>, sanitized_title(Self))

Call_ext == cls = "Entry" /\ Call("ext", <<>>, ext(Self))

Call_upload_date == cls = "Entry" /\ Call("upload_date", <<>>, upload_date(Self))

Call_upload_year == cls = "Entry" /\ Call("upload_year", <<>>, upload_year(Self))

Call_upload_month_padded ==
    cls = "Entry" /\ Call("upload_month_padded", <<>>, upload_month_padded(Self))

Call_upload_day_padded ==
    cls = "Entry" /\ Call("upload_day_padded", <<>>, upload_day_padded(Self))

Call_upload_month == cls = "Entry" /\ Call("upload_month", <<>>, upload_month(Self))

Call_upload_day == cls = "Entry" /\ Call("upload_day", <<>>, upload_day(Self))

Call_upload_date_standardized ==
    cls = "Entry"
    /\ Call("upload_date_standardized", <<>>, upload_date_standardized(Self))

Call_description == cls = "Entry" /\ Call("description", <<>>, description(Self))

Call_thumbnail == cls = "Entry" /\ Call("thumbnail", <<>>, thumbnail(Self))

Call_thumbnail_ext == cls = "Entry" /\ Call("thumbnail_ext", <<>>, thumbnail_ext(Self))

Call_download_file_name ==
    cls = "Entry" /\ Call("download_file_name", <<>>, download_file_name(Self))

Call_download_thumbnail_name ==
    cls = "Entry" /\ Call("download_thumbnail_name", <<>>, download_thumbnail_name(Self))

Call_file_path ==
    /\ cls = "Entry"
    /\ \E directory \in Directories :
           Call("file_path", directory, file_path(Self, directory))

Call_thumbnail_path ==
    /\ cls = "Entry"
    /\ \E directory \in Directories :
           Call("thumbnail_path", directory, thumbnail_path(Self, directory))

Next ==
    \/ Call_kwargs_contains
    \/ Call_kwargs
    \/ Call_uid
    \/ Call_extractor
    \/ Call_playlist_metadata
    \/ Call_to_dict
    \/ Call_apply_formatter
    \/ Call_title
    \/ Call_sanitized_title
    \/ Call_ext
    \/ Call_upload_date
    \/ Call_upload_year
    \/ Call_upload_month_padded
    \/ Call_upload_day_padded
    \/ Call_upload_month
    \/ Call_upload_day
    \/ Call_upload_date_standardized
    \/ Call_description
    \/ Call_thumbnail
    \/ Call_thumbnail_ext
    \/ Call_download_file_name
    \/ Call_download_thumbnail_name
    \/ Call_file_path
    \/ Call_thumbnail_path

Spec == Init /\ [][Next]_vars

\* The date properties, over every digit string of length 8.
NextDate ==
    \/ Call_upload_date
    \/ Call_upload_year
    \/ Call_upload_month_padded
    \/ Call_upload_day_padded
    \/ Call_upload_month
    \/ Call_upload_day
    \/ Call_upload_date_standardized

SpecDate == InitDate /\ [][NextDate]_vars

\* The thumbnail properties, over every URL string up to MaxUrlLen.
NextThumb ==
    \/ Call_thumbnail
    \/ Call_thumbnail_ext
    \/ Call_download_thumbnail_name
    \/ Call_thumbnail_path

SpecThumb == InitThumb /\ [][NextThumb]_vars

(***************************************************************************)
(* The claims.                                                             *)
(***************************************************************************)
\* The fixed key set of the full projection.
FixedKeys ==
    {"uid", "extractor", "title", "sanitized_title", "description", "ext",
     "upload_date", "upload_date_standardized", "upload_year", "upload_month",
     "upload_month_padded", "upload_day", "upload_day_padded", "thumbnail",
     "thumbnail_ext"}

\* The entry's raw mapping holds every required key.
Complete == RequiredKeys \subseteq DOMAIN _kwargs

\* The mapping of the overrides object of the last call; empty when none.
OverridesMapping ==
    IF IsNone(arg.overrides) THEN <<>> ELSE arg.overrides.dict_with_format_strings

\* C1: kwargs(key) returns the raw mapping's value for key verbatim when the
\* key is present; when it is absent the call raises KeyError carrying the key
\* and the name of the object's concrete class, and returns no default.
C1_GetReturnsOrRaises ==
    op = "kwargs" =>
        IF arg \in DOMAIN _kwargs
        THEN result.tag = "ok" /\ result.val = _kwargs[arg]
        ELSE result.tag = "KeyError" /\ result.key = arg /\ result.cls = cls

C1_Witness ==
    /\ op = "kwargs"
    /\ cls = "Entry"
    /\ arg = "thumbnail"
    /\ arg \notin DOMAIN _kwargs
    /\ result.tag = "KeyError"

\* C2: when apply_formatter of an entry with a complete raw mapping hands a
\* mapping to the formatter, its keys are those of the full projection and of
\* the overrides; a key of the overrides carries the overrides' value, every
\* other key the entry's value; without overrides it is the full projection.
C2_OverridesOnTop ==
    (op = "apply_formatter" /\ cls = "Entry" /\ Complete /\ formatter_calls # <<>>) =>
        LET handed == formatter_calls[1]
            projection == Entry_to_dict(Self).val
        IN  /\ DOMAIN handed = FixedKeys \cup DOMAIN OverridesMapping
            /\ \A k \in DOMAIN OverridesMapping : handed[k] = OverridesMapping[k]
            /\ \A k \in FixedKeys \ DOMAIN OverridesMapping :
                   handed[k] = projection[k]
            /\ IsNone(arg.overrides) => handed = projection

C2_Witness ==
    /\ op = "apply_formatter"
    /\ cls = "Entry"
    /\ Complete
    /\ ~IsNone(arg.overrides)
    /\ formatter_calls # <<>>
    /\ _kwargs["title"] = <<"t", "/">>
    /\ formatter_calls[1]["title"] = <<"B">>
    /\ formatter_calls[1]["custom"] = <<"c">>
    /\ formatter_calls[1]["ext"] = <<"m">>

\* C3: to_dict of an entry whose raw mapping holds the seven required keys
\* returns a mapping whose key set is exactly the fixed set, its uid and
\* extractor those of the base projection.
C3_FixedKeySet ==
    (op = "to_dict" /\ cls = "Entry" /\ Complete) =>
        /\ IsOk(result)
        /\ DOMAIN result.val = FixedKeys
        /\ result.val["uid"] = BaseEntry_to_dict(Self).val["uid"]
        /\ result.val["extractor"] = BaseEntry_to_dict(Self).val["extractor"]

\* The raw keys each property or method of Entry reads.
Reads ==
    [p \in {"uid", "extractor", "title", "sanitized_title", "ext", "upload_date",
            "upload_year", "upload_month_padded", "upload_day_padded",
            "upload_month", "upload_day", "upload_date_standardized",
            "description", "thumbnail", "thumbnail_ext", "download_file_name",
            "download_thumbnail_name", "file_path", "thumbnail_path", "to_dict"} |->
        CASE p = "uid" -> {"id"}
          [] p = "extractor" -> {"extractor"}
          [] p \in {"title", "sanitized_title"} -> {"title"}
          [] p = "ext" -> {"ext"}
          [] p = "description" -> {"description"}
          [] p \in {"thumbnail", "thumbnail_ext"} -> {"thumbnail"}
          [] p \in {"download_file_name", "file_path"} -> {"id", "ext"}
          [] p \in {"download_thumbnail_name", "thumbnail_path"} -> {"id", "thumbnail"}
          [] p = "to_dict" -> RequiredKeys
          [] OTHER -> {"upload_date"}]

\* C4: reading a property of an entry whose raw mapping lacks exactly one
\* required key, a key the property reads, raises KeyError naming that key.
C4_MissingKeyRaises ==
    \A k \in RequiredKeys :
        ( /\ cls = "Entry"
          /\ DOMAIN _kwargs \cap RequiredKeys = RequiredKeys \ {k}
          /\ op \in DOMAIN Reads
          /\ k \in Reads[op] )
        => (result.tag = "KeyError" /\ result.key = k)

\* C5: for every 8-digit upload date D, upload_date_standardized is
\* D[0:4] "-" D[4:6] "-" D[6:8], ten characters long.
C5_StandardizedDate ==
    op = "upload_date_standardized" =>
        LET D == _kwargs["upload_date"]
        IN  /\ IsOk(result)
            /\ result.val = SubSeq(D, 1, 4) \o <<"-">> \o SubSeq(D, 5, 6)
                                \o <<"-">> \o SubSeq(D, 7, 8)
            /\ Len(result.val) = 10

\* The zero-padded two-digit form of n in 0..99.
Pad2(n) == IF n < 10 THEN <<"0">> \o FormatInt(n) ELSE FormatInt(n)

\* C6: for every 8-digit upload date D, upload_month and upload_day return an
\* integer in 0..99 whose zero-padded two-digit form is D[4:6], respectively
\* D[6:8].
C6_MonthDayIntegers ==
    LET D == _kwargs["upload_date"]
    IN  /\ op = "upload_month" =>
               (IsOk(result) /\ result.val \in 0..99
                   /\ Pad2(result.val) = SubSeq(D, 5, 6))
        /\ op = "upload_day" =>
               (IsOk(result) /\ result.val \in 0..99
                   /\ Pad2(result.val) = SubSeq(D, 7, 8))

\* C7: thumbnail_ext of a URL with a "." is what follows the last ".", and
\* holds no "."; of a URL without ".", the whole URL.
C7_ThumbnailExt ==
    op = "thumbnail_ext" =>
        LET U == _kwargs["thumbnail"]
            dots == {i \in 1..Len(U) : U[i] = "."}
        IN  /\ IsOk(result)
            /\ IF dots # {}
               THEN /\ result.val = SubSeq(U, Max(dots) + 1, Len(U))
                    /\ \A i \in 1..Len(result.val) : result.val[i] # "."
               ELSE result.val = U

C7_Witness ==
    /\ op = "thumbnail_ext"
    /\ _kwargs["thumbnail"] = <<".", ".", "/">>
    /\ result = Ok(<<"/">>)

\* C8: with id, ext and thumbnail present, download_file_name is
\* uid "." ext and download_thumbnail_name is uid "." thumbnail_ext.
C8_DownloadNames ==
    {"id", "ext", "thumbnail"} \subseteq DOMAIN _kwargs =>
        /\ op = "download_file_name" =>
               result = Ok(uid(Self).val \o <<".">> \o ext(Self).val)
        /\ op = "download_thumbnail_name" =>
               result = Ok(uid(Self).val \o <<".">> \o thumbnail_ext(Self).val)

C8_Witness ==
    /\ op = "download_thumbnail_name"
    /\ {"id", "ext", "thumbnail"} \subseteq DOMAIN _kwargs
    /\ _kwargs["thumbnail"] = <<"x", ".", "j">>
    /\ result = Ok(<<"a", ".", "j">>)

\* C9: after any sequence of calls the raw mapping is the one captured at
\* construction, the overrides object of the last call is as it was handed
\* in, and a call that repeats the first call has the first call's outcome.
C9_NothingChanges ==
    /\ _kwargs = constructed
    /\ op = "apply_formatter" => overrides = arg.overrides
    /\ (first.op = op /\ first.arg = arg) => result = first.result

C9_Witness ==
    /\ again
    /\ op = "apply_formatter"
    /\ first.op = op
    /\ first.arg = arg
    /\ ~IsNone(overrides)
    /\ first.result.tag = "KeyError"

\* The raw keys to_dict of the object's class reads.
RequiredOf(c) == IF c = "Entry" THEN RequiredKeys ELSE {"id", "extractor"}

\* C10: a call of apply_formatter invokes the formatter at most once; with a
\* required raw key missing it raises KeyError and never invokes the
\* formatter; otherwise the formatter is invoked and what it returns or
\* raises is what the call returns or raises.
C10_FormatterOnce ==
    op = "apply_formatter" =>
        /\ Len(formatter_calls) <= 1
        /\ IF RequiredOf(cls) \subseteq DOMAIN _kwargs
           THEN /\ Len(formatter_calls) = 1
                /\ result = arg.formatter.outcome
           ELSE /\ formatter_calls = <<>>
                /\ result.tag = "KeyError"

====
